---- MODULE Spec2Model ----
(***************************************************************************)
(* Model of resolve_conflicts.py: a scanner that walks the tree and lists  *)
(* the .ts/.tsx files under client/server that hold '<<<<<<< HEAD', and a   *)
(* resolver that rewrites each listed file with re.sub.                    *)
(* Texts (file contents, file names, directory names) are sequences of     *)
(* one-character strings, so the substring tests and the regular           *)
(* expression work on characters as they do in the program.                *)
(***************************************************************************)
EXTENDS Integers, Sequences, FiniteSets, TLC

\* ------------------------------------------------------------- bounds
\* Longest free sequence of tokens an input content is drawn from.
MaxLen == 5
\* Number of segments (blocks, fragments) chained into a structured input.
MaxSegs == 2
\* Number of changes the environment makes to the files during one run.
MaxEnv == 2

\* ------------------------------------------------------------- literals
StartMarker == <<"<","<","<","<","<","<","<"," ","H","E","A","D">>

Separator == <<"=","=","=","=","=","=","=">>

EndMarker ==
  <<">",">",">",">",">",">",">"," ","j","u","l","e","s","-",
    "t","e","s","t","i","n","g","-","m","e","r","g","e","s">>

ExtTsx == <<".","t","s","x">>

ExtTs == <<".","t","s">>

DirClient == <<"c","l","i","e","n","t">>

DirServer == <<"s","e","r","v","e","r">>

\* ------------------------------------------------------------- str helpers
\* m occurs in c at index i (1-based).
OccursAt(c, m, i) ==
  /\ i >= 1
  /\ i + Len(m) - 1 <= Len(c)
  /\ \A k \in 1..Len(m) : c[i + k - 1] = m[k]

\* str.find: the first index >= from where m occurs in c, 0 when there is none.
Find(c, m, from) ==
  LET hits == {i \in from..(Len(c) - Len(m) + 1) : OccursAt(c, m, i)}
  IN  IF hits = {} THEN 0 ELSE CHOOSE i \in hits : \A j \in hits : i <= j

\* Python's `m in c` on strings.
Contains(c, m) == Find(c, m, 1) # 0

\* str.endswith with a tuple of suffixes.
EndsWith(c, suffixes) ==
  \E s \in suffixes : Len(s) <= Len(c) /\ OccursAt(c, s, Len(c) - Len(s) + 1)

\* os.path.join(root, file)
PathJoin(root, file) == root \o <<"/">> \o file

\* ------------------------------------------------------------- the regex
NoMatch == [ok |-> FALSE, g1 |-> <<>>, end |-> 0]

\* A greedy group (.*) would stop at the last end marker.
MatchEndGreedy(c, from) ==
  LET hits == {k \in from..Len(c) : OccursAt(c, EndMarker, k)}
  IN  IF hits = {} THEN 0 ELSE CHOOSE k \in hits : \A j \in hits : j <= k

\* A pattern whose end marker is optional would match up to the end of text.
MatchEndOptional(c, from) ==
  LET k == Find(c, EndMarker, from) IN IF k = 0 THEN Len(c) + 1 ELSE k

\* Where the lazy group (.*?) followed by the end marker stops: the first end
\* marker at or after `from`; 0 when the rest of the pattern cannot match.
MatchEnd(c, from) == Find(c, EndMarker, from)

\* The separator the lazy `.*?` stops at: backtracking extends `.*?` to the
\* first separator after which the rest of the pattern matches.
MatchSep(c, from) ==
  LET seps == {j \in from..Len(c) :
                 OccursAt(c, Separator, j) /\ MatchEnd(c, j + Len(Separator)) # 0}
  IN  IF seps = {} THEN 0 ELSE CHOOSE j \in seps : \A x \in seps : j <= x

\* The pattern tried at index i: the start marker, `.*?` (DOTALL, lazy), the
\* separator, the captured `(.*?)`, the end marker.
MatchAt(c, i) ==
  IF ~OccursAt(c, StartMarker, i) THEN NoMatch
  ELSE LET j == MatchSep(c, i + Len(StartMarker))
       IN  IF j = 0 THEN NoMatch
           ELSE LET k == MatchEnd(c, j + Len(Separator))
                IN  [ok |-> TRUE,
                     g1 |-> SubSeq(c, j + Len(Separator), k - 1),
                     end |-> k + Len(EndMarker)]

\* re.sub from position pos on: it searches the next index where the pattern
\* matches (only an index where the start marker stands can), replaces the
\* match by the template r'\1' and copies the text it skipped.
RECURSIVE SubFrom(_, _)
SubFrom(c, pos) ==
  LET i == Find(c, StartMarker, pos)
  IN  IF i = 0 THEN SubSeq(c, pos, Len(c))
      ELSE LET m == MatchAt(c, i)
           IN  IF m.ok THEN SubSeq(c, pos, i - 1) \o m.g1 \o SubFrom(c, m.end)
               ELSE SubSeq(c, pos, i) \o SubFrom(c, i + 1)

\* re.sub(conflict_pattern, r'\1', content, flags=re.DOTALL)
reSub(c) == SubFrom(c, 1)

\* ------------------------------------------------------------- the tree
\* What os.walk('.') yields, one entry per (root, file) of the inner loop, in
\* the order the walk visits them.
Tree ==
  << [root |-> <<".","/","c","l","i","e","n","t">>, name |-> <<"a",".","t","s">>],
     [root |-> <<".","/","c","l","i","e","n","t">>, name |-> <<"c",".","j","s">>],
     [root |-> <<".","/","l","i","b">>,             name |-> <<"d",".","t","s">>],
     [root |-> <<".","/","s","e","r","v","e","r">>, name |-> <<"b",".","t","s","x">>],
     [root |-> <<".","/","s","r","c","/","c","l","i","e","n","t","s">>,
      name |-> <<"e",".","d",".","t","s">>] >>

PathOf(e) == PathJoin(e.root, e.name)

Paths == {PathOf(Tree[i]) : i \in 1..Len(Tree)}

\* The file resolve_conflicts is called on when it is exercised on its own.
CallPath == PathOf(Tree[1])

\* ------------------------------------------------------------- inputs
\* File contents are drawn as sequences of tokens and rendered to characters.
TokChars(t) ==
  CASE t = "S"  -> StartMarker
    [] t = "M"  -> Separator
    [] t = "E"  -> EndMarker
    [] t = "nl" -> <<"\n">>
    [] t = "eq" -> <<"=">>
    [] OTHER    -> <<t>>

RECURSIVE Render(_)
Render(ts) == IF ts = <<>> THEN <<>> ELSE TokChars(Head(ts)) \o Render(Tail(ts))

Tok == {"S", "M", "E", "x", "nl", "eq"}

FreeSeqs(n) == UNION {[1..k -> Tok] : k \in 0..n}

Block(a, b) == <<"S">> \o a \o <<"M">> \o b \o <<"E">>

CurSides == {<<>>, <<"nl", "x", "nl">>, <<"eq">>}

IncSides == {<<>>, <<"nl", "y", "nl">>, <<"eq">>}

Leads == {<<>>, <<"x", "nl">>}

Pool ==
  {pre \o Block(a, b) : pre \in Leads, a \in CurSides, b \in IncSides}
    \cup {<<>>, <<"x">>, <<"nl">>, <<"S">>, <<"M">>, <<"E">>}

RECURSIVE Chains(_)
Chains(n) ==
  IF n = 0 THEN {<<>>} ELSE {s \o p : s \in Chains(n - 1), p \in Pool}

Inputs == {Render(t) : t \in FreeSeqs(MaxLen) \cup Chains(MaxSegs)}

\* Contents the files of the tree start with, per entry of Tree.
TreeContents(i) ==
  CASE i = 1 -> {Render(Block(<<"nl", "x", "nl">>, <<"nl", "y", "nl">>) \o <<"nl">>),
                 Render(<<"S", "M", "S", "M", "E", "E">>),
                 Render(<<"S", "x">>),
                 Render(<<"x", "nl">>)}
    [] i = 4 -> {Render(<<"x">> \o Block(<<>>, <<"y">>) \o <<"nl">> \o Block(<<"x">>, <<>>)),
                 Render(<<"y", "nl">>)}
    [] OTHER -> {Render(Block(<<"x">>, <<"y">>))}

\* ------------------------------------------------------------- state
VARIABLES
  fs,              \* the files: path -> [status, content]
  pc,              \* where the script is
  walk,            \* index in Tree of the next file of the scanner loop
  conflict_files,  \* the candidate list
  ridx,            \* index in conflict_files of the resolver loop
  content,         \* resolve_conflicts' local `content`
  out,             \* the lines printed so far
  orig,            \* history: each file's content at the start
  scanLog,         \* history: what the scanner did with each file it visited
  readLog,         \* history: the paths resolve_conflicts read, in order
  writeLog,        \* history: the paths resolve_conflicts wrote, in order
  envCount         \* history: changes made to the files from outside

vars == <<fs, pc, walk, conflict_files, ridx, content, out,
          orig, scanLog, readLog, writeLog, envCount>>

LineFound(n) == [kind |-> "Found", n |-> n, path |-> <<>>]

LineResolving(p) == [kind |-> "Resolving", n |-> 0, path |-> p]

LineAllResolved == [kind |-> "AllResolved", n |-> 0, path |-> <<>>]

\* open(p, 'r') and read() succeed.
CanRead(p) == fs[p].status \in {"ok", "nowrite"}

\* open(p, 'w') succeeds: it creates a file that is missing.
CanWrite(p) == fs[p].status \in {"ok", "noread", "missing"}

Init ==
  /\ \E cs \in [1..Len(Tree) -> UNION {TreeContents(i) : i \in 1..Len(Tree)}] :
       /\ \A i \in 1..Len(Tree) : cs[i] \in TreeContents(i)
       /\ orig = [p \in Paths |->
                    cs[CHOOSE i \in 1..Len(Tree) : PathOf(Tree[i]) = p]]
  /\ fs = [p \in Paths |-> [status |-> "ok", content |-> orig[p]]]
  /\ pc = "scan"
  /\ walk = 1
  /\ conflict_files = <<>>
  /\ ridx = 1
  /\ content = <<>>
  /\ out = <<>>
  /\ scanLog = <<>>
  /\ readLog = <<>>
  /\ writeLog = <<>>
  /\ envCount = 0

\* ------------------------------------------------------------- scanner
\* The filter without its test of the extension.
FilterAnyExt(file, root) ==
  Contains(root, DirClient) \/ Contains(root, DirServer)

\* The filter of the scanner loop.
Filter(file, root) ==
  /\ EndsWith(file, {ExtTsx, ExtTs})
  /\ (Contains(root, DirClient) \/ Contains(root, DirServer))

\* The test on the text read.
HasMarker(text) == Contains(text, StartMarker)

\* The iteration without its try/except: a failed read ends the run.
ScanFileNoTry ==
  /\ pc = "scan"
  /\ walk <= Len(Tree)
  /\ LET e == Tree[walk]
         p == PathOf(e)
     IN  IF ~Filter(e.name, e.root)
         THEN /\ scanLog' = Append(scanLog, [path |-> p, status |-> fs[p].status, did |-> "filtered"])
              /\ UNCHANGED <<conflict_files, pc>>
         ELSE IF ~CanRead(p)
         THEN /\ scanLog' = Append(scanLog, [path |-> p, status |-> fs[p].status, did |-> "error"])
              /\ pc' = "crashed"
              /\ UNCHANGED conflict_files
         ELSE /\ scanLog' = Append(scanLog, [path |-> p, status |-> fs[p].status, did |-> "read"])
              /\ conflict_files' =
                   IF HasMarker(fs[p].content)
                   THEN Append(conflict_files, p) ELSE conflict_files
              /\ UNCHANGED pc
  /\ walk' = walk + 1
  /\ UNCHANGED <<fs, ridx, content, out, orig, readLog, writeLog, envCount>>

\* One iteration of `for file in files`: filter, try to read, test, append.
ScanFile ==
  /\ pc = "scan"
  /\ walk <= Len(Tree)
  /\ LET e == Tree[walk]
         p == PathOf(e)
     IN  IF ~Filter(e.name, e.root)
         THEN /\ scanLog' = Append(scanLog, [path |-> p, status |-> fs[p].status, did |-> "filtered"])
              /\ UNCHANGED conflict_files
         ELSE IF ~CanRead(p)
         THEN /\ scanLog' = Append(scanLog, [path |-> p, status |-> fs[p].status, did |-> "error"])
              /\ UNCHANGED conflict_files
         ELSE /\ scanLog' = Append(scanLog, [path |-> p, status |-> fs[p].status, did |-> "read"])
              /\ conflict_files' =
                   IF HasMarker(fs[p].content)
                   THEN Append(conflict_files, p) ELSE conflict_files
  /\ walk' = walk + 1
  /\ UNCHANGED <<fs, pc, ridx, content, out, orig, readLog, writeLog, envCount>>

\* The 'Found' line and the resolver loop entered before the walk has ended.
PrintFoundEarly ==
  /\ pc = "scan"
  /\ walk > 1
  /\ out' = Append(out, LineFound(Len(conflict_files)))
  /\ pc' = "loop"
  /\ UNCHANGED <<fs, walk, conflict_files, ridx, content,
                 orig, scanLog, readLog, writeLog, envCount>>

\* print(f"Found {len(conflict_files)} files with conflicts")
PrintFound ==
  /\ pc = "scan"
  /\ walk > Len(Tree)
  /\ out' = Append(out, LineFound(Len(conflict_files)))
  /\ pc' = "loop"
  /\ UNCHANGED <<fs, walk, conflict_files, ridx, content,
                 orig, scanLog, readLog, writeLog, envCount>>

\* ------------------------------------------------------------- resolver
\* resolve_conflicts up to the end of the first `with`: print, open, read.
rcRead(p, next) ==
  /\ CanRead(p)
  /\ out' = Append(out, LineResolving(p))
  /\ content' = fs[p].content
  /\ readLog' = Append(readLog, p)
  /\ pc' = next
  /\ UNCHANGED <<fs, walk, conflict_files, orig, scanLog, writeLog, envCount>>

\* The open for reading raises: the line is printed, nothing is caught.
rcReadFail(p) ==
  /\ ~CanRead(p)
  /\ out' = Append(out, LineResolving(p))
  /\ pc' = "crashed"
  /\ UNCHANGED <<fs, walk, conflict_files, content,
                 orig, scanLog, readLog, writeLog, envCount>>

\* The rest of resolve_conflicts: re.sub, open for writing, write.
rcWrite(p, next) ==
  /\ CanWrite(p)
  /\ fs' = [fs EXCEPT ![p] =
              [status |-> IF @.status = "missing" THEN "ok" ELSE @.status,
               content |-> reSub(content)]]
  /\ writeLog' = Append(writeLog, p)
  /\ content' = <<>>
  /\ pc' = next
  /\ UNCHANGED <<walk, conflict_files, out, orig, scanLog, readLog, envCount>>

\* The open for writing raises: the file is as it was.
rcWriteFail(p) ==
  /\ ~CanWrite(p)
  /\ pc' = "crashed"
  /\ UNCHANGED <<fs, walk, conflict_files, content, out,
                 orig, scanLog, readLog, writeLog, envCount>>

\* for file_path in conflict_files: resolve_conflicts(file_path)
ResolveRead ==
  /\ pc = "loop"
  /\ ridx <= Len(conflict_files)
  /\ rcRead(conflict_files[ridx], "write")
  /\ UNCHANGED ridx

\* A resolver loop that catches the failed read and goes to the next file.
ResolveReadSkip ==
  /\ pc = "loop"
  /\ ridx <= Len(conflict_files)
  /\ ~CanRead(conflict_files[ridx])
  /\ out' = Append(out, LineResolving(conflict_files[ridx]))
  /\ ridx' = ridx + 1
  /\ UNCHANGED <<fs, pc, walk, conflict_files, content,
                 orig, scanLog, readLog, writeLog, envCount>>

\* The call raises at the open for reading: the loop and the script end.
ResolveReadFail ==
  /\ pc = "loop"
  /\ ridx <= Len(conflict_files)
  /\ rcReadFail(conflict_files[ridx])
  /\ UNCHANGED ridx

ResolveWrite ==
  /\ pc = "write"
  /\ rcWrite(conflict_files[ridx], "loop")
  /\ ridx' = ridx + 1

ResolveWriteFail ==
  /\ pc = "write"
  /\ rcWriteFail(conflict_files[ridx])
  /\ UNCHANGED ridx

\* print("All conflicts resolved!")
PrintDone ==
  /\ pc = "loop"
  /\ ridx > Len(conflict_files)
  /\ out' = Append(out, LineAllResolved)
  /\ pc' = "done"
  /\ UNCHANGED <<fs, walk, conflict_files, ridx, content,
                 orig, scanLog, readLog, writeLog, envCount>>

\* ------------------------------------------------------------- environment
\* Another process removes a file, or changes what may be done with it.
EnvRemove ==
  /\ pc \notin {"done", "crashed", "call", "callwrite", "return"}
  /\ envCount < MaxEnv
  /\ \E p \in Paths :
       /\ fs[p].status # "missing"
       /\ fs' = [fs EXCEPT ![p] = [status |-> "missing", content |-> <<>>]]
  /\ envCount' = envCount + 1
  /\ UNCHANGED <<pc, walk, conflict_files, ridx, content, out,
                 orig, scanLog, readLog, writeLog>>

EnvChmod ==
  /\ pc \notin {"done", "crashed", "call", "callwrite", "return"}
  /\ envCount < MaxEnv
  /\ \E p \in Paths, s \in {"noread", "nowrite"} :
       /\ fs[p].status \notin {"missing", s}
       /\ fs' = [fs EXCEPT ![p].status = s]
  /\ envCount' = envCount + 1
  /\ UNCHANGED <<pc, walk, conflict_files, ridx, content, out,
                 orig, scanLog, readLog, writeLog>>

Program ==
  \/ ScanFile \/ PrintFound
  \/ ResolveRead \/ ResolveReadFail \/ ResolveWrite \/ ResolveWriteFail
  \/ PrintDone

Next == Program \/ EnvRemove \/ EnvChmod

Spec == Init /\ [][Next]_vars

\* ------------------------------------------------------------- one call
\* resolve_conflicts called on one file, whatever its content.
InitCall ==
  /\ \E c \in Inputs :
       orig = [p \in Paths |-> IF p = CallPath THEN c ELSE <<>>]
  /\ fs = [p \in Paths |-> [status |-> "ok", content |-> orig[p]]]
  /\ pc = "call"
  /\ walk = 1
  /\ conflict_files = <<>>
  /\ ridx = 1
  /\ content = <<>>
  /\ out = <<>>
  /\ scanLog = <<>>
  /\ readLog = <<>>
  /\ writeLog = <<>>
  /\ envCount = 0

CallRead ==
  /\ pc = "call"
  /\ rcRead(CallPath, "callwrite")
  /\ UNCHANGED ridx

CallWrite ==
  /\ pc = "callwrite"
  /\ rcWrite(CallPath, "return")
  /\ UNCHANGED ridx

NextCall == CallRead \/ CallWrite

CallSpec == InitCall /\ [][NextCall]_vars

\* ------------------------------------------------------------- reading a content
\* A content read as markers and characters, left to right.
RECURSIVE TokenizeFrom(_, _)
TokenizeFrom(c, i) ==
  IF i > Len(c) THEN <<>>
  ELSE IF OccursAt(c, StartMarker, i)
       THEN <<"START">> \o TokenizeFrom(c, i + Len(StartMarker))
  ELSE IF OccursAt(c, Separator, i)
       THEN <<"SEP">> \o TokenizeFrom(c, i + Len(Separator))
  ELSE IF OccursAt(c, EndMarker, i)
       THEN <<"END">> \o TokenizeFrom(c, i + Len(EndMarker))
  ELSE <<c[i]>> \o TokenizeFrom(c, i + 1)

Tokenize(c) == TokenizeFrom(c, 1)

IsMarker(t) == t \in {"START", "SEP", "END"}

RECURSIVE Chars(_)
Chars(t) ==
  IF t = <<>> THEN <<>>
  ELSE (CASE Head(t) = "START" -> StartMarker
          [] Head(t) = "SEP"   -> Separator
          [] Head(t) = "END"   -> EndMarker
          [] OTHER             -> <<Head(t)>>) \o Chars(Tail(t))

\* The first marker after index i of t, 0 when there is none.
NextMarker(t, i) ==
  LET ms == {j \in (i + 1)..Len(t) : IsMarker(t[j])}
  IN  IF ms = {} THEN 0 ELSE CHOOSE j \in ms : \A x \in ms : j <= x

\* A well-formed block opens at i: a start marker, text, its separator, text,
\* its end marker, the two texts free of markers.
BlockSep(t, i) == NextMarker(t, i)

BlockEnd(t, i) == NextMarker(t, BlockSep(t, i))

WellFormedAt(t, i) ==
  /\ t[i] = "START"
  /\ BlockSep(t, i) # 0
  /\ t[BlockSep(t, i)] = "SEP"
  /\ BlockEnd(t, i) # 0
  /\ t[BlockEnd(t, i)] = "END"

\* Some marker from index i on belongs to no well-formed block.
RECURSIVE Stray(_, _)
Stray(t, i) ==
  IF i > Len(t) THEN FALSE
  ELSE IF WellFormedAt(t, i) THEN Stray(t, BlockEnd(t, i) + 1)
  ELSE IF IsMarker(t[i]) THEN TRUE
  ELSE Stray(t, i + 1)

\* From index i on, the markers outside the well-formed blocks are start
\* markers only.
RECURSIVE OnlyStartsStray(_, _)
OnlyStartsStray(t, i) ==
  IF i > Len(t) THEN TRUE
  ELSE IF WellFormedAt(t, i) THEN OnlyStartsStray(t, BlockEnd(t, i) + 1)
  ELSE IF t[i] \in {"SEP", "END"} THEN FALSE
  ELSE OnlyStartsStray(t, i + 1)

\* Number of well-formed blocks from index i on.
RECURSIVE Blocks(_, _)
Blocks(t, i) ==
  IF i > Len(t) THEN 0
  ELSE IF WellFormedAt(t, i) THEN 1 + Blocks(t, BlockEnd(t, i) + 1)
  ELSE Blocks(t, i + 1)

\* Each well-formed block replaced by its incoming span, the rest kept.
RECURSIVE TakeIncoming(_, _)
TakeIncoming(t, i) ==
  IF i > Len(t) THEN <<>>
  ELSE IF WellFormedAt(t, i)
       THEN SubSeq(t, BlockSep(t, i) + 1, BlockEnd(t, i) - 1)
              \o TakeIncoming(t, BlockEnd(t, i) + 1)
  ELSE <<t[i]>> \o TakeIncoming(t, i + 1)

\* A start marker, later a separator, later an end marker.
HasCompleteBlock(c) ==
  \E i \in 1..Len(c) :
    /\ OccursAt(c, StartMarker, i)
    /\ \E j \in (i + Len(StartMarker))..Len(c) :
         /\ OccursAt(c, Separator, j)
         /\ \E k \in (j + Len(Separator))..Len(c) : OccursAt(c, EndMarker, k)

\* The pattern with the start marker bound to the beginning of a line.
MatchAtAnchored(c, i) ==
  IF ~(OccursAt(c, StartMarker, i) /\ (i = 1 \/ c[i - 1] = "\n")) THEN NoMatch
  ELSE LET j == MatchSep(c, i + Len(StartMarker))
       IN  IF j = 0 THEN NoMatch
           ELSE LET k == MatchEnd(c, j + Len(Separator))
                IN  [ok |-> TRUE,
                     g1 |-> SubSeq(c, j + Len(Separator), k - 1),
                     end |-> k + Len(EndMarker)]

\* The substitution with that pattern.
RECURSIVE LineStartSub(_, _)
LineStartSub(c, pos) ==
  LET i == Find(c, StartMarker, pos)
  IN  IF i = 0 THEN SubSeq(c, pos, Len(c))
      ELSE LET m == MatchAtAnchored(c, i)
           IN  IF m.ok THEN SubSeq(c, pos, i - 1) \o m.g1 \o LineStartSub(c, m.end)
               ELSE SubSeq(c, pos, i) \o LineStartSub(c, i + 1)

Range(s) == {s[i] : i \in 1..Len(s)}

IsPrefix(s, t) == Len(s) <= Len(t) /\ s = SubSeq(t, 1, Len(s))

Returned == pc = "return"

Before == orig[CallPath]

After == fs[CallPath].content

\* ------------------------------------------------------------- claims
\* C1: a file whose whole content is the start marker, newline, A, newline,
\* the separator, newline, B, newline, the end marker, newline (A and B one
\* line of plain text) is rewritten to exactly B and one newline.
C1_RoundTrip ==
  Returned =>
    \A A \in {<<"x">>}, B \in {<<"y">>} :
      Before = StartMarker \o <<"\n">> \o A \o <<"\n">> \o Separator
                 \o <<"\n">> \o B \o <<"\n">> \o EndMarker \o <<"\n">>
        => After = B \o <<"\n">>

\* C2: when the content is plain text interleaved with well-formed blocks and
\* nothing else (no marker outside a block), one call writes the content with
\* every block replaced by its incoming span and the other text kept in order.
C2_AllBlocksResolved ==
  Returned =>
    LET t == Tokenize(Before)
    IN  ~Stray(t, 1) => After = Chars(TakeIncoming(t, 1))

C2_Witness ==
  /\ Returned
  /\ ~Stray(Tokenize(Before), 1)
  /\ Blocks(Tokenize(Before), 1) = 2
  /\ Tokenize(Before)[1] = "x"
  /\ After = <<"x", "\n", "\n", "y", "\n", "x", "\n", "=">>

\* C3: a start marker that opens no well-formed block (nested, or without its
\* own separator or end marker) is in no match: in a content whose separators
\* and end markers all belong to well-formed blocks, only those blocks are
\* replaced and the other start markers and the text are written back as
\* they were.
C3_MalformedUntouched ==
  Returned =>
    LET t == Tokenize(Before)
    IN  (Stray(t, 1) /\ OnlyStartsStray(t, 1)) => After = Chars(TakeIncoming(t, 1))

\* C4: when the content holds no start marker followed later by a separator
\* and then an end marker, the call returns and the file is as it was.
C4_NoMatchNoChange ==
  /\ pc # "crashed"
  /\ Returned => (~HasCompleteBlock(Before) => After = Before)

C4_Witness ==
  /\ Returned
  /\ Contains(Before, StartMarker)
  /\ Contains(Before, Separator)
  /\ ~HasCompleteBlock(Before)
  /\ After = Before

\* C5: a block is matched only where the start marker begins a line, up to
\* the first separator and then the first end marker: the content written is
\* the substitution with the start marker bound to the beginning of a line.
C5_LineStartOnly == Returned => After = LineStartSub(Before, 1)

\* ------------------------------------------------------------- claims on the run
Printed(kind) == \E k \in 1..Len(out) : out[k].kind = kind

ScanEnded == pc \in {"loop", "write", "done", "crashed"}

Candidates == Range(conflict_files)

\* The entry of the scanner's log for path p, when it has visited p.
Visit(p) == scanLog[CHOOSE k \in 1..Len(scanLog) : scanLog[k].path = p]

Visited(p) == \E k \in 1..Len(scanLog) : scanLog[k].path = p

\* C6: once discovery has ended, a path is in conflict_files exactly when its
\* name ends in .ts or .tsx, its directory holds 'client' or 'server', the
\* file could be read when the scanner came to it, and its text holds the
\* start marker; and the resolver writes candidates only.
C6_Candidates ==
  ScanEnded =>
    /\ \A i \in 1..Len(Tree) :
         LET e == Tree[i]
             p == PathOf(e)
         IN  p \in Candidates <=>
               /\ EndsWith(e.name, {ExtTs, ExtTsx})
               /\ Contains(e.root, DirClient) \/ Contains(e.root, DirServer)
               /\ Visited(p) /\ Visit(p).status \in {"ok", "nowrite"}
               /\ Contains(orig[p], StartMarker)
    /\ Range(writeLog) \subseteq Candidates

C6_Witness ==
  /\ pc = "done"
  /\ Len(conflict_files) = 2
  /\ PathOf(Tree[1]) \notin Candidates
  /\ ~Contains(orig[PathOf(Tree[1])], StartMarker)
  /\ Contains(fs[PathOf(Tree[2])].content, StartMarker)
  /\ Contains(fs[PathOf(Tree[3])].content, StartMarker)
  /\ writeLog = conflict_files

\* C7: a file whose read fails during the scan is left out of the list and
\* is never written, the files the filter accepts around it are still listed,
\* and until the 'Found' line is printed the script is in the scan and has a
\* step to take: it neither stops nor fails there.
C7_Inv ==
  /\ pc = "crashed" => (Printed("Found") /\ walk > Len(Tree))
  /\ \A k \in 1..Len(scanLog) :
       LET v == scanLog[k]
       IN  /\ v.status \in {"missing", "noread"} =>
                (v.path \notin Candidates /\ v.path \notin Range(writeLog))
           /\ (/\ \E j \in 1..Len(scanLog) : scanLog[j].did = "error"
               /\ v.did = "read"
               /\ Contains(orig[v.path], StartMarker)) => v.path \in Candidates

C7_ScanNeverFails ==
  /\ C7_Inv
  /\ ~Printed("Found") => (pc = "scan" /\ ENABLED (ScanFile \/ PrintFound))

C7_Witness ==
  /\ Printed("Found")
  /\ scanLog[1].did = "error"
  /\ Contains(orig[scanLog[1].path], StartMarker)
  /\ Len(conflict_files) = 2
  /\ writeLog = conflict_files

\* C8: a failure in the resolution ends the run at that file: the line
\* 'All conflicts resolved!' is not printed, the candidates after it are
\* neither read nor written and keep their content, the candidates before it
\* are resolved, and no candidate is passed over.
C8_Inv ==
  /\ \A i \in 1..Len(conflict_files) : i < ridx => conflict_files[i] \in Range(writeLog)
  /\ Printed("AllResolved") => (pc = "done" /\ writeLog = conflict_files)
  /\ pc = "crashed" =>
       /\ ridx <= Len(conflict_files)
       /\ out[Len(out)] = LineResolving(conflict_files[ridx])
       /\ ~Printed("AllResolved")
       /\ \A i \in 1..Len(conflict_files) :
            LET p == conflict_files[i]
            IN  /\ i > ridx =>
                     /\ p \notin Range(readLog) /\ p \notin Range(writeLog)
                     /\ (fs[p].status # "missing" => fs[p].content = orig[p])
                /\ i < ridx =>
                     (fs[p].status # "missing" => fs[p].content = reSub(orig[p]))

\* A step of the script on a candidate it cannot read, or cannot write.
C8_Step ==
  /\ (pc = "loop" /\ ridx <= Len(conflict_files)
        /\ ~CanRead(conflict_files[ridx]) /\ out' # out) => pc' = "crashed"
  /\ (pc = "write" /\ ~CanWrite(conflict_files[ridx]) /\ pc' # pc) => pc' = "crashed"

C8_FatalNotSkip == []C8_Inv /\ [][C8_Step]_vars

C8_Witness ==
  /\ pc = "crashed"
  /\ Len(conflict_files) = 3
  /\ ridx = 2
  /\ fs[conflict_files[2]].status = "missing"
  /\ fs[conflict_files[1]].content # orig[conflict_files[1]]
  /\ fs[conflict_files[3]].content = orig[conflict_files[3]]

\* C9: nothing is resolved before the scan has visited every file of the
\* tree and the 'Found' line is printed, nothing is scanned once the
\* resolution has begun, and the candidates are read and written once each,
\* in the order of the list.
NoDup(s) == \A i, j \in 1..Len(s) : s[i] = s[j] => i = j

ResolutionBegun ==
  readLog # <<>> \/ writeLog # <<>> \/ Printed("Resolving") \/ pc \in {"loop", "write", "done"}

C9_Inv ==
  /\ ResolutionBegun =>
       /\ walk > Len(Tree)
       /\ [k \in 1..Len(scanLog) |-> scanLog[k].path] = [k \in 1..Len(Tree) |-> PathOf(Tree[k])]
       /\ out # <<>> /\ out[1].kind = "Found"
  /\ \A p \in Paths :
       (fs[p].content # orig[p] /\ fs[p].status # "missing") => ResolutionBegun
  /\ NoDup(conflict_files)
  /\ IsPrefix(readLog, conflict_files)
  /\ IsPrefix(writeLog, readLog)
  /\ Len(readLog) <= Len(writeLog) + 1
  /\ pc = "done" => (readLog = conflict_files /\ writeLog = conflict_files)

C9_Step ==
  ResolutionBegun => (scanLog' = scanLog /\ conflict_files' = conflict_files)

C9_TwoPhases == []C9_Inv /\ [][C9_Step]_vars

C9_Witness ==
  /\ pc = "done"
  /\ Len(conflict_files) = 3
  /\ writeLog = conflict_files
  /\ envCount = 0

\* C10: when the run prints 'All conflicts resolved!' and nobody else touched
\* the files, no candidate holds a complete conflict block any more.
C10_NoBlockLeft ==
  (pc = "done" /\ envCount = 0) =>
    \A p \in Candidates : ~HasCompleteBlock(fs[p].content)

====
